---- MODULE Spec2Model ----
(***************************************************************************)
(* Layered package configuration (pkg/config.py: PkgConfig, ConfigValue)   *)
(* with its deep merge (utils/mapping.py) and downloader                   *)
(* (utils/downloads.py), modelled as a state machine.                      *)
(*                                                                         *)
(* Python values are encoded as records tagged by `kind`:                  *)
(*   none, int, str, bool, list, map, path (a pathlib.Path), pathstr (the  *)
(*   str() of a Path, as JSON stores it) and content (the parsed document  *)
(*   of a resource file).  A list carries `shared`, true when the list     *)
(*   object is the very object held by params.BASE_CONFIG (Python          *)
(*   reference semantics: an in-place += on it changes both).              *)
(***************************************************************************)
EXTENDS Integers, Sequences, FiniteSets, TLC

VARIABLES pc, path, data, _files, _updated, default_paths,
          default_download_path, BASE_CONFIG, params, cfg, files, dirs,
          cv, last, hist, calls, threads

vars == <<pc, path, data, _files, _updated, default_paths,
          default_download_path, BASE_CONFIG, params, cfg, files, dirs,
          cv, last, hist, calls, threads>>

-----------------------------------------------------------------------------
(* Bounds *)

\* how many calls are made on the constructed config
MaxCalls == 5

-----------------------------------------------------------------------------
(* Python values *)

VNone == [kind |-> "none"]
VInt(i) == [kind |-> "int", i |-> i]
VStr(s) == [kind |-> "str", s |-> s]
VBool(b) == [kind |-> "bool", b |-> b]
VList(l, sh) == [kind |-> "list", l |-> l, shared |-> sh]
VMap(m) == [kind |-> "map", m |-> m]
VPath(d, n) == [kind |-> "path", dir |-> d, name |-> n]
VPathStr(d, n) == [kind |-> "pathstr", dir |-> d, name |-> n]
VContent(d, n) == [kind |-> "content", dir |-> d, name |-> n]

\* the element of a one-element set
Only(S) == CHOOSE y \in S : TRUE

EmptyDict == [k \in {} |-> VNone]
Dict1(k, v) == k :> v
Dict2(k1, v1, k2, v2) == (k1 :> v1) @@ (k2 :> v2)
Dict3(k1, v1, k2, v2, k3, v3) == (k1 :> v1) @@ (k2 :> v2) @@ (k3 :> v3)

\* iteration order of dict.items(): insertion order; every mapping of the
\* model is written with its keys in this order
KeyOrder == <<"a", "b", "c", "x", "n", "res", "y", "w", "is_file", "name", "url", "paths",
              "download_dest", "_path">>
items(u) == SelectSeq(KeyOrder, LAMBDA k : k \in DOMAIN u)

\* Python truthiness of a value
Truthy(v) ==
    CASE v.kind = "none" -> FALSE
      [] v.kind = "bool" -> v.b
      [] v.kind = "int" -> v.i # 0
      [] v.kind = "list" -> v.l # <<>>
      [] v.kind = "map" -> DOMAIN v.m # {}
      [] OTHER -> TRUE

-----------------------------------------------------------------------------
(* utils/mapping.py *)

NoHandlers == [k \in {} |-> "none"]
ListAdd == "list" :> "add"

\* handlers[type(v)](old, new); operator.add on a list raises TypeError
\* unless the old value is a list too
CallHandler(h, old, new) ==
    IF h = "add" /\ old.kind = "list" /\ new.kind = "list"
    THEN [exc |-> "", v |-> VList(old.l \o new.l, FALSE)]
    ELSE [exc |-> "TypeError", v |-> old]

\* a stored value that is never handed to a handler
dispatches_never(d, k, v, handlers) == FALSE

\* `k in d` and handlers.get(type(v), None) is not None, for a mapping d
dispatches(d, k, v, handlers) ==
    k \in DOMAIN d.m /\ v.kind \in DOMAIN handlers

\* a loop body that stores every value of u in place of the old one
ddu_item_shallow(d, k, v, handlers) ==
    IF d.kind # "map" THEN [exc |-> "TypeError", d |-> d, hc |-> <<>>]
    ELSE [exc |-> "", d |-> VMap((k :> v) @@ d.m), hc |-> <<>>]

RECURSIVE ddu_loop(_, _, _, _)
RECURSIVE ddu_item(_, _, _, _)
\* one pass of the loop body of dict_deep_update for the item (k, v) of u; d
\* is the object passed as `d` (any value: d.get(k, {}) returns whatever is
\* stored).  Gives the exception raised ("" for none), d as it is left and
\* hc, the handler calls h(d[k], u[k]) made, in order, each with the keys
\* leading from d to the value handled.
ddu_item(d, k, v, handlers) ==
    IF d.kind # "map"
    THEN \* d.get(k, {}) on a non-mapping has no attribute `get`;
         \* `k in d` / d[k] = v on a non-mapping is a TypeError
         [exc |-> IF v.kind = "map" THEN "AttributeError" ELSE "TypeError",
          d |-> d, hc |-> <<>>]
    ELSE IF v.kind = "map"
    THEN Only({ IF r.exc = ""
                THEN [exc |-> "", d |-> VMap((k :> r.d) @@ d.m),
                      hc |-> [i \in DOMAIN r.hc |->
                                [r.hc[i] EXCEPT !.k = <<k>> \o @]]]
                ELSE \* a stored dict was changed in place before the raise
                     [exc |-> r.exc,
                      d |-> IF k \in DOMAIN d.m
                            THEN VMap([d.m EXCEPT ![k] = r.d]) ELSE d,
                      hc |-> [i \in DOMAIN r.hc |->
                                [r.hc[i] EXCEPT !.k = <<k>> \o @]]]
                : r \in {ddu_loop(IF k \in DOMAIN d.m THEN d.m[k]
                                  ELSE VMap(EmptyDict),
                                  v.m, items(v.m), handlers)} })
    ELSE IF dispatches(d, k, v, handlers)
    THEN Only({ [exc |-> c.exc,
                 d |-> IF c.exc = "" THEN VMap((k :> c.v) @@ d.m) ELSE d,
                 hc |-> <<[k |-> <<k>>, old |-> d.m[k], new |-> v]>>]
                : c \in {CallHandler(handlers[v.kind], d.m[k], v)} })
    ELSE [exc |-> "", d |-> VMap((k :> v) @@ d.m), hc |-> <<>>]

\* the loop of dict_deep_update over the remaining items ks of u
ddu_loop(d, u, ks, handlers) ==
    IF ks = <<>> THEN [exc |-> "", d |-> d, hc |-> <<>>]
    ELSE Only({ IF r.exc # "" THEN r
                ELSE Only({ [rest EXCEPT !.hc = r.hc \o @]
                            : rest \in {ddu_loop(r.d, u, Tail(ks), handlers)} })
                : r \in {ddu_item(d, Head(ks), u[Head(ks)], handlers)} })

dict_deep_update(d, u, handlers) == ddu_loop(d, u, items(u), handlers)

-----------------------------------------------------------------------------
(* File system: configuration files and resource files *)

Absent == [kind |-> "absent"]

CfgPath(stem, ext) == [stem |-> stem, ext |-> ext]
UserYml == CfgPath("user", ".yml")
UserJson == CfgPath("user", ".json")
InstallYml == CfgPath("install", ".yml")
ExplicitJson == CfgPath("explicit", ".json")
ExtraYml == CfgPath("extra", ".YML")
OutJson == CfgPath("out", ".json")
NotesTxt == CfgPath("notes", ".txt")
GoneYml == CfgPath("gone", ".yml")
ConfYaml == CfgPath("conf", ".yaml")
CfgPaths == {UserYml, UserJson, InstallYml, ExplicitJson, ExtraYml, OutJson,
             NotesTxt, GoneYml, ConfYaml}

NoPath == CfgPath("", "")

\* str.lower() of a suffix
lower(ext) ==
    CASE ext = ".YML" -> ".yml"
      [] ext = ".YAML" -> ".yaml"
      [] ext = ".JSON" -> ".json"
      [] OTHER -> ext

RECURSIVE by_value(_)
\* a value compared with == : its contents, whichever objects hold them
by_value(v) ==
    CASE v.kind = "list" -> VList(v.l, FALSE)
      [] v.kind = "map" -> VMap([k \in DOMAIN v.m |-> by_value(v.m[k])])
      [] OTHER -> v

RECURSIVE json_dumps(_)
\* utils/json.py dumps with ExtendedJSONEncoder, read back by srsly.read_json:
\* a Path becomes its str(), every list a fresh list
json_dumps(v) ==
    CASE v.kind = "path" -> VPathStr(v.dir, v.name)
      [] v.kind = "list" -> VList(v.l, FALSE)
      [] v.kind = "map" -> VMap([k \in DOMAIN v.m |-> json_dumps(v.m[k])])
      [] OTHER -> v

\* a validation that compares the suffix as it is written
validate_config_file_exact(fs, p, must_exists) ==
    IF fs[p] = Absent /\ must_exists THEN "ConfigFileError"
    ELSE IF p.ext \notin {".yml", ".yaml", ".json"} THEN "ConfigFileError"
    ELSE ""

\* PkgConfig.validate_config_file: the exception it raises, "" for none
validate_config_file(fs, p, must_exists) ==
    IF fs[p] = Absent /\ must_exists THEN "ConfigFileError"
    ELSE IF lower(p.ext) \notin {".yml", ".yaml", ".json"} THEN "ConfigFileError"
    ELSE ""

\* pkg/readers.py interpret_file on a configuration file: srsly.read_json or
\* yaml.load by suffix, giving the document the file holds
interpret_file(fs, p) == fs[p]

\* PkgConfig._read_config_file (validate=True)
_read_config_file(fs, p) ==
    LET e == validate_config_file(fs, p, TRUE)
    IN  IF e # "" THEN [exc |-> e, v |-> VNone]
        ELSE [exc |-> "", v |-> interpret_file(fs, p)]

\* PkgConfig._export: json.dumps gives a str that write_text stores; yaml.dump
\* (utils/yaml.py) gives bytes, which Path.write_text refuses with a TypeError
\* before the file is opened
_export(fs, d, p) ==
    LET e == validate_config_file(fs, p, FALSE)
    IN  IF e # "" THEN [exc |-> e, fs |-> fs]
        ELSE IF lower(p.ext) = ".json"
        THEN [exc |-> "", fs |-> [fs EXCEPT ![p] = json_dumps(d)]]
        ELSE [exc |-> "TypeError", fs |-> fs]

\* PkgConfig._load_init with self.path given: that file alone
load_explicit(fs, explicit, old) ==
    LET r == _read_config_file(fs, explicit)
    IN  [exc |-> r.exc, data |-> IF r.exc = "" THEN r.v ELSE old, fs |-> fs]

\* one layer file of _load_init merged over the result r so far, when the
\* file is there
merge_file(fs, p, r) ==
    IF r.exc # "" \/ p = NoPath \/ fs[p] = Absent THEN r
    ELSE Only({ IF f.exc # "" THEN [exc |-> f.exc, d |-> r.d]
                ELSE dict_deep_update(r.d, f.v.m, NoHandlers)
                : f \in {_read_config_file(fs, p)} })

\* the user file exported from the merged data d when it is missing
create_user_file(fs, prm, r) ==
    IF r.exc = "" /\ fs[prm.DEFAULT_CONFIG_FILE] = Absent
                  /\ prm.CREATE_USER_CONFIG_IF_NONE
    THEN _export(fs, r.d, prm.DEFAULT_CONFIG_FILE)
    ELSE [exc |-> "", fs |-> fs]

\* PkgConfig._load_init without self.path: base config, installed file and
\* user file merged in that order, the user file exported when it is missing
load_layers(fs, prm, base, old) ==
    Only({ [exc |-> IF r.exc # "" THEN r.exc ELSE ex.exc,
            data |-> IF r.exc = "" /\ ex.exc = "" THEN r.d ELSE old,
            fs |-> ex.fs]
           : <<r, ex>> \in
               { <<r3, create_user_file(fs, prm, r3)>>
                 : r3 \in { merge_file(fs, prm.DEFAULT_CONFIG_FILE, r2)
                            : r2 \in { merge_file(fs, prm.INSTALL_CONFIG_FILE, r1)
                                       : r1 \in { IF base # VNone
                                                  THEN dict_deep_update(
                                                         VMap(EmptyDict), base.m,
                                                         NoHandlers)
                                                  ELSE [exc |-> "",
                                                        d |-> VMap(EmptyDict)] } } } } })

\* a load that merges the layers even when an explicit path was given
_load_init_layered(fs, explicit, prm, base, old) == load_layers(fs, prm, base, old)

\* PkgConfig._load_init: the exception raised, the value self.data is left
\* with (unchanged when the load raises before assigning it) and the files
_load_init(fs, explicit, prm, base, old) ==
    IF explicit # NoPath THEN load_explicit(fs, explicit, old)
    ELSE load_layers(fs, prm, base, old)

-----------------------------------------------------------------------------
(* utils/downloads.py *)

\* is_downloadable: the content-type the server announces for the url
is_downloadable(url) == url = "ub"

\* download(url, dest, name) with only_binary=True: declined content returns
\* None; an existing dest reaches the misspelt dest.existst() and raises
\* AttributeError; otherwise dest/name is created (with its parents) and returned
download(url, dest, name, fl, ds) ==
    IF ~is_downloadable(url)
    THEN [exc |-> "", ret |-> VNone, files |-> fl, dirs |-> ds]
    ELSE IF dest \in ds
    THEN [exc |-> "AttributeError", ret |-> VNone, files |-> fl, dirs |-> ds]
    ELSE [exc |-> "", ret |-> VPath(dest, name),
          files |-> fl \cup {<<dest, name>>}, dirs |-> ds \cup {dest}]

-----------------------------------------------------------------------------
(* PkgConfig: sub-config files *)

DescriptorKeys == {"name", "url", "paths", "_path", "is_file", "download_dest"}

\* PkgConfig.is_subconfig_file: the value returned and self._files afterwards
is_subconfig_file(d, fcache, name) ==
    IF name \notin DOMAIN d.m
    THEN [exc |-> "KeyError", ret |-> VNone, _files |-> fcache]
    ELSE
      LET x == d.m[name]
          is_file == IF x.kind # "map" THEN VBool(FALSE)
                     ELSE IF "is_file" \in DOMAIN x.m THEN x.m["is_file"]
                     ELSE IF name \in DOMAIN fcache THEN VBool(fcache[name])
                     ELSE VNone
      IN  IF x.kind # "map"
          THEN [exc |-> "", ret |-> VBool(FALSE), _files |-> fcache]
          ELSE IF is_file = VNone
          THEN LET b == (DOMAIN x.m) \ DescriptorKeys = {}
               IN  [exc |-> "", ret |-> VBool(b), _files |-> (name :> b) @@ fcache]
          ELSE [exc |-> "", ret |-> is_file, _files |-> fcache]

\* a search that keeps the last root holding the file
scan_last(p, i, fname, tried, tests) ==
    LET hits == {j \in 1..Len(p) : <<p[j], fname>> \in files}
    IN  IF hits = {} THEN [found |-> "", tests |-> tests]
        ELSE [found |-> p[CHOOSE j \in hits : \A h \in hits : h <= j],
              tests |-> tests]

RECURSIVE scan_all(_, _, _, _, _)
\* a search that tests every root of the list, repeated or not
scan_all(p, i, fname, tried, tests) ==
    IF i > Len(p) THEN [found |-> "", tests |-> tests]
    ELSE IF <<p[i], fname>> \in files
    THEN [found |-> p[i], tests |-> Append(tests, p[i])]
    ELSE scan_all(p, i + 1, fname, tried, Append(tests, p[i]))

RECURSIVE scan(_, _, _, _, _)
\* the search loop: roots p from index i on, the parents already tried and
\* the existence tests made so far; gives the root found ("" for none)
scan(p, i, fname, tried, tests) ==
    IF i > Len(p) THEN [found |-> "", tests |-> tests]
    ELSE IF p[i] \in tried THEN scan(p, i + 1, fname, tried, tests)
    ELSE IF <<p[i], fname>> \in files
    THEN [found |-> p[i], tests |-> Append(tests, p[i])]
    ELSE scan(p, i + 1, fname, tried \cup {p[i]}, Append(tests, p[i]))

\* the message of the FileNotFoundError get_subconfig_path raises:
\* `{fname}` (key = {name}) data could not be found in {p}
NotFound(fname, name, p) ==
    [kind |-> "error", fname |-> fname, key |-> name, paths |-> p]

\* a fallback built in the last candidate root
fallback_root_last(dest_path, p) ==
    IF dest_path = VBool(TRUE) THEN p[Len(p)] ELSE dest_path.s

\* dest_path as the directory the fallback path is built in
fallback_root(dest_path, p) ==
    IF dest_path = VBool(TRUE) THEN p[1] ELSE dest_path.s

\* what a call leaves behind: exception, return value (the message when
\* FileNotFoundError is raised), how the path was obtained, and the objects
\* it changed
Outcome(exc, ret, how, d, fcache, base, fl, ds, tests, dl) ==
    [exc |-> exc, ret |-> ret, how |-> how, data |-> d, _files |-> fcache,
     base |-> base, files |-> fl, dirs |-> ds, tests |-> tests, dl |-> dl]

\* a search that stores the dest_path fallback in `_path`
search_path_caching(d, fcache, name, x, fname, try_default_paths, dest_path) ==
    LET has == "paths" \in DOMAIN x.m
        grow == has /\ try_default_paths
        p == IF has
             THEN (IF grow THEN x.m["paths"].l \o default_paths ELSE x.m["paths"].l)
             ELSE default_paths
        \* p += self.default_paths changes the list object in place
        x1 == IF grow THEN VMap([x.m EXCEPT !["paths"] = VList(p, @.shared)]) ELSE x
        base1 == IF grow /\ x.m["paths"].shared
                 THEN VMap([BASE_CONFIG.m EXCEPT ![name] =
                           VMap([@.m EXCEPT !["paths"] = VList(p, TRUE)])])
                 ELSE BASE_CONFIG
        s == scan(p, 1, fname, {}, <<>>)
        d1 == VMap([d.m EXCEPT ![name] = x1])
    IN  IF s.found # ""
        THEN LET _p == VPath(s.found, fname)
             IN  Outcome("", _p, "search",
                         VMap([d.m EXCEPT ![name] = VMap(("_path" :> _p) @@ x1.m)]),
                         fcache, base1, files, dirs, s.tests, <<>>)
        ELSE IF dest_path = VNone
        THEN Outcome("FileNotFoundError", NotFound(fname, name, p), "", d1,
                     fcache, base1, files, dirs, s.tests, <<>>)
        ELSE IF dest_path = VBool(TRUE) /\ p = <<>>
        THEN Outcome("IndexError", VNone, "", d1, fcache, base1, files, dirs,
                     s.tests, <<>>)
        ELSE LET _p == VPath(fallback_root(dest_path, p), fname)
             IN  Outcome("", _p, "fallback",
                         VMap([d.m EXCEPT ![name] = VMap(("_path" :> _p) @@ x1.m)]),
                         fcache, base1, files, dirs, s.tests, <<>>)

\* the search branch of get_subconfig_path (no url)
search_path(d, fcache, name, x, fname, try_default_paths, dest_path) ==
    LET has == "paths" \in DOMAIN x.m
        grow == has /\ try_default_paths
        p == IF has
             THEN (IF grow THEN x.m["paths"].l \o default_paths ELSE x.m["paths"].l)
             ELSE default_paths
        \* p += self.default_paths changes the list object in place
        x1 == IF grow THEN VMap([x.m EXCEPT !["paths"] = VList(p, @.shared)]) ELSE x
        base1 == IF grow /\ x.m["paths"].shared
                 THEN VMap([BASE_CONFIG.m EXCEPT ![name] =
                           VMap([@.m EXCEPT !["paths"] = VList(p, TRUE)])])
                 ELSE BASE_CONFIG
        s == scan(p, 1, fname, {}, <<>>)
        d1 == VMap([d.m EXCEPT ![name] = x1])
    IN  IF s.found # ""
        THEN LET _p == VPath(s.found, fname)
             IN  Outcome("", _p, "search",
                         VMap([d.m EXCEPT ![name] = VMap(("_path" :> _p) @@ x1.m)]),
                         fcache, base1, files, dirs, s.tests, <<>>)
        ELSE IF dest_path = VNone
        THEN Outcome("FileNotFoundError", NotFound(fname, name, p), "", d1,
                     fcache, base1, files, dirs, s.tests, <<>>)
        ELSE IF dest_path = VBool(TRUE) /\ p = <<>>
        THEN Outcome("IndexError", VNone, "", d1, fcache, base1, files, dirs,
                     s.tests, <<>>)
        ELSE Outcome("", VPath(fallback_root(dest_path, p), fname),
                     "fallback", d1, fcache, base1, files, dirs, s.tests, <<>>)

\* a resolution that searches the roots even when a url is given
locate_by_search(d, fcache, name, try_default_paths, dest_path) ==
    search_path(d, fcache, name, d.m[name],
                IF "name" \in DOMAIN d.m[name].m THEN d.m[name].m["name"].s
                ELSE name,
                try_default_paths, dest_path)

\* get_subconfig_path when '_path' is not in x: download or search
locate(d, fcache, name, try_default_paths, dest_path) ==
    LET x == d.m[name]
        fname == IF "name" \in DOMAIN x.m THEN x.m["name"].s ELSE name
        url == IF "url" \in DOMAIN x.m THEN x.m["url"] ELSE VNone
    IN  IF url # VNone
        THEN LET dest == IF "download_dest" \in DOMAIN x.m
                         THEN x.m["download_dest"].s
                         ELSE default_download_path
                 r == download(url.s, dest, fname, files, dirs)
                 call == <<[url |-> url.s, dest |-> dest, name |-> fname]>>
             IN  IF r.exc # ""
                 THEN Outcome(r.exc, VNone, "", d, fcache, BASE_CONFIG,
                              files, dirs, <<>>, call)
                 ELSE Outcome("", r.ret, "download",
                              VMap([d.m EXCEPT ![name] =
                                    VMap(("_path" :> r.ret) @@ x.m)]),
                              fcache, BASE_CONFIG, r.files, r.dirs, <<>>, call)
        ELSE search_path(d, fcache, name, x, fname, try_default_paths, dest_path)

\* the assertion that opens get_subconfig_path: "" when it passes
asserted(c) ==
    IF c.exc # "" THEN c.exc
    ELSE IF ~Truthy(c.ret) THEN "AssertionError"
    ELSE ""

\* a resolution that never looks at the cached '_path'
get_subconfig_path_uncached(d, fcache, name, try_default_paths, dest_path) ==
    LET c == is_subconfig_file(d, fcache, name)
    IN  IF asserted(c) # ""
        THEN Outcome(asserted(c), VNone, "", d, c._files, BASE_CONFIG, files, dirs,
                     <<>>, <<>>)
        ELSE locate(d, c._files, name, try_default_paths, dest_path)

\* PkgConfig.get_subconfig_path
get_subconfig_path(d, fcache, name, try_default_paths, dest_path) ==
    LET c == is_subconfig_file(d, fcache, name)
    IN  IF asserted(c) # ""
        THEN Outcome(asserted(c), VNone, "", d, c._files, BASE_CONFIG, files, dirs,
                     <<>>, <<>>)
        ELSE IF "_path" \in DOMAIN d.m[name].m
        THEN Outcome("", d.m[name].m["_path"], "cached", d, c._files, BASE_CONFIG,
                     files, dirs, <<>>, <<>>)
        ELSE locate(d, c._files, name, try_default_paths, dest_path)

\* pkg/readers.py interpret_file on a resolved resource path: Path(None) is a
\* TypeError, a missing file cannot be read, otherwise the parsed document
read_resource_file(p, fl) ==
    IF p.kind = "none" THEN [exc |-> "TypeError", v |-> VNone]
    ELSE IF <<p.dir, p.name>> \notin fl THEN [exc |-> "FileNotFoundError", v |-> VNone]
    ELSE [exc |-> "", v |-> VContent(p.dir, p.name)]

\* a read that hands its dest_path on to the resolution
read_subconfig_passing(d, fcache, name, try_default_paths, dest_path) ==
    Only({ IF r.exc # "" THEN r
           ELSE LET f == read_resource_file(r.ret, r.files)
                IN  [r EXCEPT !.exc = f.exc, !.ret = f.v]
           : r \in {get_subconfig_path(d, fcache, name, try_default_paths,
                                       dest_path)} })

\* PkgConfig.read_subconfig: dest_path is not passed on
read_subconfig(d, fcache, name, try_default_paths, dest_path) ==
    Only({ IF r.exc # "" THEN r
           ELSE LET f == read_resource_file(r.ret, r.files)
                IN  [r EXCEPT !.exc = f.exc, !.ret = f.v]
           : r \in {get_subconfig_path(d, fcache, name, try_default_paths,
                                       VNone)} })

\* a get that answers every failure with the default
get_swallowing(d, fcache, name, default, try_default_paths, dest_path, read_file) ==
    Only({ IF c.exc # "" \/ ~Truthy(c.ret)
           THEN Outcome("", IF c.exc # "" THEN default ELSE d.m[name], "", d,
                        c._files, BASE_CONFIG, files, dirs, <<>>, <<>>)
           ELSE Only({ IF r.exc # "" THEN [r EXCEPT !.exc = "", !.ret = default]
                       ELSE r
                       : r \in {IF read_file
                                THEN read_subconfig(d, c._files, name,
                                                    try_default_paths, dest_path)
                                ELSE get_subconfig_path(d, c._files, name,
                                                        try_default_paths,
                                                        dest_path)} })
           : c \in {is_subconfig_file(d, fcache, name)} })

\* a get that answers None for a key the tree does not hold
get_none(d, fcache, name, default, try_default_paths, dest_path, read_file) ==
    Only({ IF c.exc = "KeyError"
           THEN Outcome("", VNone, "", d, fcache, BASE_CONFIG, files, dirs,
                        <<>>, <<>>)
           ELSE IF Truthy(c.ret)
           THEN (IF read_file
                 THEN read_subconfig(d, c._files, name, try_default_paths,
                                     dest_path)
                 ELSE get_subconfig_path(d, c._files, name, try_default_paths,
                                         dest_path))
           ELSE Outcome("", d.m[name], "", d, c._files, BASE_CONFIG, files, dirs,
                        <<>>, <<>>)
           : c \in {is_subconfig_file(d, fcache, name)} })

\* PkgConfig.get
get(d, fcache, name, default, try_default_paths, dest_path, read_file) ==
    LET c == is_subconfig_file(d, fcache, name)
    IN  IF c.exc = "KeyError"
        THEN Outcome("", default, "", d, fcache, BASE_CONFIG, files, dirs, <<>>, <<>>)
        ELSE IF Truthy(c.ret)
        THEN (IF read_file
              THEN read_subconfig(d, c._files, name, try_default_paths, dest_path)
              ELSE get_subconfig_path(d, c._files, name, try_default_paths, dest_path))
        ELSE Outcome("", d.m[name], "", d, c._files, BASE_CONFIG, files, dirs,
                     <<>>, <<>>)

-----------------------------------------------------------------------------
(* ConfigValue *)

VPost(v) == [kind |-> "post", v |-> v]

\* the ConfigValue instances of the program: ConfigValue("x", "y", default=0)
\* and ConfigValue("n", postprocessor=...)
CVs == {"cv_xy", "cv_n"}
CVDef(i) ==
    IF i = "cv_xy"
    THEN [node |-> "x", keys |-> <<"y">>, default |-> VInt(0),
          setdefault |-> FALSE, postprocessor |-> FALSE]
    ELSE [node |-> "n", keys |-> <<>>, default |-> VNone,
          setdefault |-> FALSE, postprocessor |-> TRUE]

RECURSIVE walk(_, _, _)
\* the loop over self.keys: `k in x` then x[k], else the default
walk(x, keys, default) ==
    IF keys = <<>> THEN [exc |-> "", v |-> x]
    ELSE LET k == Head(keys)
         IN  CASE x.kind = "map" ->
                    IF k \in DOMAIN x.m THEN walk(x.m[k], Tail(keys), default)
                    ELSE [exc |-> "", v |-> default]
               [] x.kind \in {"int", "bool", "none", "path"} ->
                    [exc |-> "TypeError", v |-> VNone]
               [] x.kind = "list" ->
                    IF \E j \in 1..Len(x.l) : x.l[j] = k
                    THEN [exc |-> "TypeError", v |-> VNone]
                    ELSE [exc |-> "", v |-> default]
               [] OTHER -> [exc |-> "", v |-> default]

\* ConfigValue._extract_from_config: the outcome of its config.get call with
\* `ret` the value extracted
_extract_from_config(i) ==
    LET c == CVDef(i)
        post(x) == IF c.postprocessor THEN VPost(x) ELSE x
    IN  Only({ IF g.exc # "" THEN g
               ELSE Only({ IF w.exc # "" THEN [g EXCEPT !.exc = w.exc, !.ret = VNone]
                           ELSE IF w.v.kind = "map" /\ c.setdefault
                           THEN [g EXCEPT !.ret = post(VMap(w.v.m @@ c.default.m))]
                           ELSE [g EXCEPT !.ret = post(w.v)]
                           : w \in {walk(g.ret, c.keys, c.default)} })
               : g \in {get(data, _files, c.node,
                            IF c.keys # <<>> THEN VMap(EmptyDict) ELSE c.default,
                            TRUE, VNone, TRUE)} })

-----------------------------------------------------------------------------
(* Observation of the last call, and history kept for the properties *)

TopKeys == {"x", "n", "res"}

NoCall ==
    [op |-> "", name |-> "", exc |-> "", ret |-> VNone, how |-> "",
     tests |-> <<>>, dl |-> <<>>, try_default_paths |-> TRUE, dest_path |-> VNone,
     read_file |-> FALSE, pinned |-> VNone, merged |-> FALSE, touched |-> FALSE,
     afterReload |-> FALSE, stale |-> FALSE, extracted |-> FALSE,
     fresh |-> VNone, arg |-> EmptyDict, handlers |-> NoHandlers, hc |-> <<>>,
     file |-> NoPath, default |-> VNone, deep |-> FALSE, fellback |-> FALSE]

Call(op, name, exc) == [NoCall EXCEPT !.op = op, !.name = name, !.exc = exc]

NoHist ==
    [tree0 |-> VNone, cfg0 |-> VNone, absent0 |-> FALSE,
     pin |-> [k \in TopKeys |-> VNone],
     merged |-> {}, touched |-> {}, fellback |-> {},
     res2 |-> [k \in TopKeys |-> "no"],
     stale |-> [i \in CVs |-> TRUE]]

\* history after a mutator: `over` the keys whose value was replaced, `deep`
\* the keys merged into in place, `tch` those among them given is_file or _path
Mutated(h, over, deep, tch, changed) ==
    [h EXCEPT !.pin = [k \in TopKeys |-> IF k \in over THEN VNone ELSE @[k]],
              !.merged = (@ \ over) \cup deep,
              !.touched = (@ \ over) \cup tch,
              !.fellback = @ \ (over \cup deep),
              !.res2 = [k \in TopKeys |->
                          IF k \in over \cup deep /\ @[k] = "reloaded"
                          THEN "no" ELSE @[k]],
              !.stale = [i \in CVs |-> changed \/ @[i]]]

\* history after a resolution of `name` with outcome o
Resolved(h, name, o) ==
    IF name \notin TopKeys THEN h
    ELSE
    [h EXCEPT !.pin[name] = IF o.how \in {"search", "download"}
                            THEN o.data.m[name].m["_path"] ELSE @,
              !.merged = IF o.how \in {"search", "download"} THEN @ \ {name} ELSE @,
              !.touched = IF o.how \in {"search", "download"} THEN @ \ {name} ELSE @,
              !.fellback = IF o.how = "fallback" THEN @ \cup {name}
                           ELSE IF o.how = "" THEN @ ELSE @ \ {name},
              !.res2[name] = IF o.how \in {"search", "download"} THEN "yes"
                             ELSE IF @ = "reloaded" THEN "no" ELSE @]

Observed(op, name, o, try_default_paths, dest_path, read_file) ==
    [NoCall EXCEPT !.op = op, !.name = name, !.exc = o.exc, !.ret = o.ret,
                   !.how = o.how, !.tests = o.tests, !.dl = o.dl,
                   !.try_default_paths = try_default_paths,
                   !.dest_path = dest_path, !.read_file = read_file,
                   !.pinned = IF name \in TopKeys THEN hist.pin[name] ELSE VNone,
                   !.merged = name \in hist.merged,
                   !.touched = name \in hist.touched,
                   !.fellback = name \in hist.fellback,
                   !.afterReload = name \in TopKeys /\ hist.res2[name] = "reloaded"]

-----------------------------------------------------------------------------
(* Actions: one per method of PkgConfig / ConfigValue *)

\* the threads that call get_subconfig_path on the shared config, and a
\* thread that has not called yet: its arguments and the locals of the call
Threads == {"t1", "t2"}
Idle ==
    [pc |-> "idle", name |-> "", try_default_paths |-> TRUE, dest_path |-> VNone,
     fname |-> "", own |-> FALSE, idx |-> 1, tried |-> {}, tests |-> <<>>,
     path |-> VNone, exc |-> "", ret |-> VNone, how |-> "",
     files0 |-> {}, dirs0 |-> {}]

\* a call on the constructed object, within the budget of calls
Called ==
    /\ pc = "loaded" /\ calls < MaxCalls /\ calls' = calls + 1
    /\ UNCHANGED threads

\* PkgConfig.__init__
__init__ ==
    /\ pc = "unloaded"
    /\ \E r \in {_load_init(cfg, path, params, BASE_CONFIG, VMap(EmptyDict))} :
           /\ pc' = IF r.exc = "" THEN "loaded" ELSE "failed"
           /\ data' = r.data
           /\ cfg' = r.fs
           /\ hist' = [NoHist EXCEPT
                          !.tree0 = r.data, !.cfg0 = r.fs,
                          !.absent0 = cfg[params.DEFAULT_CONFIG_FILE] = Absent]
           /\ last' = [Call("__init__", "", r.exc) EXCEPT !.file = path]
    /\ _files' = EmptyDict
    /\ _updated' = FALSE
    /\ default_paths' = <<".">>
    /\ default_download_path' = "."
    /\ UNCHANGED <<path, BASE_CONFIG, params, files, dirs, cv, calls, threads>>

\* a reload that hands back a clean config
reloaded_flag_cleared(exc, old) == IF exc = "" THEN FALSE ELSE old

\* self._updated after reload: set once _load_init has returned
reloaded_flag(exc, old) == IF exc = "" THEN TRUE ELSE old

\* PkgConfig.reload
reload ==
    /\ Called
    /\ \E r \in {_load_init(cfg, path, params, BASE_CONFIG, data)} :
           /\ data' = r.data
           /\ cfg' = r.fs
           /\ _updated' = reloaded_flag(r.exc, _updated)
           /\ hist' = IF r.exc # "" THEN hist
                      ELSE [Mutated(hist, TopKeys, {}, {}, TRUE) EXCEPT
                              !.res2 = [k \in TopKeys |->
                                          IF hist.res2[k] = "yes" THEN "reloaded"
                                          ELSE hist.res2[k]]]
           /\ last' = Call("reload", "", r.exc)
    /\ _files' = EmptyDict
    /\ UNCHANGED <<pc, path, default_paths, default_download_path, BASE_CONFIG,
                   params, files, dirs, cv>>

\* keys of an update whose value replaces the stored one / is merged into it
Replacing(u) == {k \in DOMAIN u : u[k].kind # "map"} \cap TopKeys
Merging(u) == {k \in DOMAIN u : u[k].kind = "map"} \cap TopKeys
Touching(u) ==
    {k \in Merging(u) : DOMAIN u[k].m \cap {"is_file", "_path"} # {}}

\* PkgConfig.expand
expand(p, deep) ==
    /\ Called
    /\ \E f \in {_read_config_file(cfg, p)} :
       \E r \in {IF f.exc # "" THEN [exc |-> f.exc, d |-> data]
                 ELSE IF deep THEN dict_deep_update(data, f.v.m, NoHandlers)
                 ELSE [exc |-> "", d |-> VMap(f.v.m @@ data.m)]} :
           /\ data' = r.d
           /\ _updated' = IF r.exc = "" THEN TRUE ELSE _updated
           /\ hist' = IF f.exc # "" THEN hist
                      ELSE IF deep
                      THEN Mutated(hist, Replacing(f.v.m), Merging(f.v.m),
                                   Touching(f.v.m), r.exc = "" \/ r.d # data)
                      ELSE Mutated(hist, DOMAIN f.v.m \cap TopKeys, {}, {}, TRUE)
           /\ last' = [Call("expand", "", r.exc) EXCEPT !.file = p, !.deep = deep]
    /\ UNCHANGED <<pc, path, _files, default_paths, default_download_path,
                   BASE_CONFIG, params, cfg, files, dirs, cv>>

\* PkgConfig.replace(path=p)
replace_path(p) ==
    /\ Called
    /\ \E f \in {_read_config_file(cfg, p)} :
           /\ data' = IF f.exc = "" THEN f.v ELSE data
           /\ _updated' = IF f.exc = "" THEN TRUE ELSE _updated
           /\ hist' = IF f.exc # "" THEN hist
                      ELSE Mutated(hist, TopKeys, {}, {}, TRUE)
           /\ last' = [Call("replace", "", f.exc) EXCEPT !.file = p]
    /\ UNCHANGED <<pc, path, _files, default_paths, default_download_path,
                   BASE_CONFIG, params, cfg, files, dirs, cv>>

\* PkgConfig.replace(data=d)
replace_data(d) ==
    /\ Called
    /\ data' = d
    /\ _updated' = TRUE
    /\ hist' = Mutated(hist, TopKeys, {}, {}, TRUE)
    /\ last' = Call("replace", "", "")
    /\ UNCHANGED <<pc, path, _files, default_paths, default_download_path,
                   BASE_CONFIG, params, cfg, files, dirs, cv>>

\* PkgConfig.update(**kwargs)
update(kwargs) ==
    /\ Called
    /\ data' = VMap(kwargs @@ data.m)
    /\ _updated' = TRUE
    /\ hist' = Mutated(hist, DOMAIN kwargs \cap TopKeys, {}, {}, TRUE)
    /\ last' = Call("update", "", "")
    /\ UNCHANGED <<pc, path, _files, default_paths, default_download_path,
                   BASE_CONFIG, params, cfg, files, dirs, cv>>

\* the class attribute PkgConfig.deep_update_handlers
deep_update_handlers == NoHandlers

\* PkgConfig.deep_update(_handlers, **kwargs)
deep_update(_handlers, kwargs) ==
    /\ Called
    /\ \E h \in {IF DOMAIN _handlers # {} THEN _handlers
                 ELSE deep_update_handlers} :
       \E r \in {dict_deep_update(data, kwargs, h)} :
           /\ data' = r.d
           /\ _updated' = IF r.exc = "" THEN TRUE ELSE _updated
           /\ hist' = Mutated(hist, Replacing(kwargs), Merging(kwargs),
                              Touching(kwargs), r.exc = "" \/ r.d # data)
           /\ last' = [Call("deep_update", "", r.exc)
                        EXCEPT !.arg = kwargs, !.handlers = h, !.hc = r.hc]
    /\ UNCHANGED <<pc, path, _files, default_paths, default_download_path,
                   BASE_CONFIG, params, cfg, files, dirs, cv>>

\* a set that stores the value without marking the config dirty
set_unflagged(item, value) ==
    /\ Called
    /\ data' = VMap((item :> value) @@ data.m)
    /\ hist' = Mutated(hist, {item} \cap TopKeys, {}, {}, TRUE)
    /\ last' = Call("set", item, "")
    /\ UNCHANGED <<pc, path, _files, _updated, default_paths,
                   default_download_path, BASE_CONFIG, params, cfg, files, dirs, cv>>

\* PkgConfig.__setitem__ / set
set(item, value) ==
    /\ Called
    /\ data' = VMap((item :> value) @@ data.m)
    /\ _updated' = TRUE
    /\ hist' = Mutated(hist, {item} \cap TopKeys, {}, {}, TRUE)
    /\ last' = Call("set", item, "")
    /\ UNCHANGED <<pc, path, _files, default_paths, default_download_path,
                   BASE_CONFIG, params, cfg, files, dirs, cv>>

\* PkgConfig.save(path=p), NoPath for the default target
save(p) ==
    /\ Called
    /\ \E target \in {IF p # NoPath THEN p
                      ELSE IF path # NoPath THEN path
                      ELSE params.DEFAULT_CONFIG_FILE} :
       \E r \in {_export(cfg, data, target)} :
           /\ cfg' = r.fs
           /\ last' = [Call("save", "", r.exc) EXCEPT !.file = p]
    /\ UNCHANGED <<pc, path, data, _files, _updated, default_paths,
                   default_download_path, BASE_CONFIG, params, files, dirs, cv, hist>>

\* PkgConfig.add_default_location
add_default_location(p, prepend) ==
    /\ Called
    /\ default_paths' = IF prepend THEN <<p>> \o default_paths
                        ELSE Append(default_paths, p)
    /\ last' = Call("add_default_location", "", "")
    /\ UNCHANGED <<pc, path, data, _files, _updated, default_download_path,
                   BASE_CONFIG, params, cfg, files, dirs, cv, hist>>

\* PkgConfig.set_default_download_location
set_default_download_location(p) ==
    /\ Called
    /\ default_download_path' = p
    /\ last' = Call("set_default_download_location", "", "")
    /\ UNCHANGED <<pc, path, data, _files, _updated, default_paths, BASE_CONFIG,
                   params, cfg, files, dirs, cv, hist>>

\* a call of PkgConfig.is_subconfig_file(name)
call_is_subconfig_file(name) ==
    /\ Called
    /\ \E c \in {is_subconfig_file(data, _files, name)} :
           /\ _files' = c._files
           /\ last' = [Call("is_subconfig_file", name, c.exc) EXCEPT !.ret = c.ret]
    /\ UNCHANGED <<pc, path, data, _updated, default_paths, default_download_path,
                   BASE_CONFIG, params, cfg, files, dirs, cv, hist>>

\* the objects a resolving call leaves changed
Leave(o) ==
    /\ data' = o.data
    /\ _files' = o._files
    /\ BASE_CONFIG' = o.base
    /\ files' = o.files
    /\ dirs' = o.dirs

\* a call of PkgConfig.get_subconfig_path(name, try_default_paths, dest_path)
call_get_subconfig_path(name, try_default_paths, dest_path) ==
    /\ Called
    /\ \E o \in {get_subconfig_path(data, _files, name, try_default_paths,
                                     dest_path)} :
           /\ Leave(o)
           /\ hist' = Resolved(hist, name, o)
           /\ last' = Observed("get_subconfig_path", name, o, try_default_paths,
                               dest_path, FALSE)
    /\ UNCHANGED <<pc, path, _updated, default_paths, default_download_path,
                   params, cfg, cv>>

\* a call of PkgConfig.get(name, default, try_default_paths, dest_path, read_file)
call_get(name, default, try_default_paths, dest_path, read_file) ==
    /\ Called
    /\ \E o \in {get(data, _files, name, default, try_default_paths, dest_path,
                      read_file)} :
           /\ Leave(o)
           /\ hist' = Resolved(hist, name, o)
           /\ last' = [Observed("get", name, o, try_default_paths, dest_path,
                                read_file) EXCEPT !.default = default]
    /\ UNCHANGED <<pc, path, _updated, default_paths, default_download_path,
                   params, cfg, cv>>

\* a call of PkgConfig.read_subconfig(name, try_default_paths, dest_path)
call_read_subconfig(name, try_default_paths, dest_path) ==
    /\ Called
    /\ \E o \in {read_subconfig(data, _files, name, try_default_paths,
                                 dest_path)} :
           /\ Leave(o)
           /\ hist' = Resolved(hist, name, o)
           /\ last' = Observed("read_subconfig", name, o, try_default_paths,
                               dest_path, TRUE)
    /\ UNCHANGED <<pc, path, _updated, default_paths, default_download_path,
                   params, cfg, cv>>

\* ConfigValue.value of instance i (bound to the module's config = PkgConfig()):
\* _get_updated_value extracts when config._updated or nothing is cached yet.
\* `fresh` records what an extraction from the current tree gives.
value(i) ==
    /\ Called
    /\ path = NoPath
    /\ \E o \in {_extract_from_config(i)} :
         IF _updated \/ ~cv[i]._cached
         THEN /\ Leave(o)
              /\ cv' = IF o.exc = ""
                       THEN [cv EXCEPT ![i] = [_cached |-> TRUE, _value |-> o.ret]]
                       ELSE cv
              /\ hist' = [Resolved(hist, CVDef(i).node, o) EXCEPT
                            !.stale[i] = IF o.exc = "" THEN FALSE ELSE @]
              /\ last' = [Observed("value", i, o, TRUE, VNone, TRUE) EXCEPT
                            !.stale = hist.stale[i], !.extracted = TRUE,
                            !.fresh = o.ret]
         ELSE /\ last' = [Call("value", i, "") EXCEPT
                            !.ret = cv[i]._value, !.stale = hist.stale[i],
                            !.fresh = o.ret]
              /\ UNCHANGED <<data, _files, BASE_CONFIG, files, dirs, cv, hist>>
    /\ UNCHANGED <<pc, path, _updated, default_paths, default_download_path,
                   params, cfg>>

\* the environment puts a resource file dir/name on disk
touch(dir, name) ==
    /\ Called
    /\ <<dir, name>> \notin files
    /\ files' = files \cup {<<dir, name>>}
    /\ dirs' = dirs \cup {dir}
    /\ last' = Call("touch", "", "")
    /\ UNCHANGED <<pc, path, data, _files, _updated, default_paths,
                   default_download_path, BASE_CONFIG, params, cfg, cv, hist>>

-----------------------------------------------------------------------------
(* get_subconfig_path called from several threads: one action per stretch   *)
(* of the method between two accesses to the shared objects (the tree, the  *)
(* descriptor and its `paths` list, self._files, the file system)           *)

\* what a step of thread t leaves alone besides the objects it names
ThreadFrame ==
    UNCHANGED <<pc, path, _updated, default_paths, default_download_path,
                params, cfg, cv, last, hist, calls>>
Becomes(t, th) == threads' = [threads EXCEPT ![t] = th]
Ends(th, exc, ret, how) ==
    [th EXCEPT !.pc = "done", !.exc = exc, !.ret = ret, !.how = how]

\* the value `return x['_path']` hands back as a string
cached_value_str(x) ==
    IF x.m["_path"].kind = "path"
    THEN VPathStr(x.m["_path"].dir, x.m["_path"].name) ELSE VStr("None")

\* return x['_path']
cached_value(x) == x.m["_path"]

\* thread t calls get_subconfig_path(name, try_default_paths, dest_path)
t_call(t, name, try_default_paths, dest_path) ==
    /\ pc = "loaded"
    /\ threads[t].pc = "idle"
    /\ Becomes(t, [Idle EXCEPT !.pc = "assert", !.name = name,
                               !.try_default_paths = try_default_paths,
                               !.dest_path = dest_path,
                               !.files0 = files, !.dirs0 = dirs])
    /\ ThreadFrame
    /\ UNCHANGED <<data, _files, BASE_CONFIG, files, dirs>>

\* assert self.is_subconfig_file(name)
t_assert(t) ==
    /\ threads[t].pc = "assert"
    /\ \E c \in {is_subconfig_file(data, _files, threads[t].name)} :
           /\ _files' = c._files
           /\ Becomes(t, IF asserted(c) # ""
                         THEN Ends(threads[t], asserted(c), VNone, "")
                         ELSE [threads[t] EXCEPT !.pc = "check"])
    /\ ThreadFrame
    /\ UNCHANGED <<data, BASE_CONFIG, files, dirs>>

\* x = self.data[name]; '_path' not in x; fname; the test of x.get('url')
t_check(t) ==
    /\ threads[t].pc = "check"
    /\ LET x == data.m[threads[t].name]
       IN  Becomes(t, [threads[t] EXCEPT
                         !.pc = IF "_path" \in DOMAIN x.m THEN "cached"
                                ELSE IF "url" \in DOMAIN x.m /\ x.m["url"] # VNone
                                THEN "head"
                                ELSE "list",
                         !.fname = IF "name" \in DOMAIN x.m THEN x.m["name"].s
                                   ELSE threads[t].name])
    /\ ThreadFrame
    /\ UNCHANGED <<data, _files, BASE_CONFIG, files, dirs>>

\* return x['_path']
t_cached(t) ==
    /\ threads[t].pc = "cached"
    /\ Becomes(t, Ends(threads[t], "", cached_value(data.m[threads[t].name]),
                       "cached"))
    /\ ThreadFrame
    /\ UNCHANGED <<data, _files, BASE_CONFIG, files, dirs>>

\* download: requests.head and is_downloadable; declined content makes
\* download return None
t_head(t) ==
    /\ threads[t].pc = "head"
    /\ Becomes(t, [threads[t] EXCEPT
                     !.pc = IF is_downloadable(data.m[threads[t].name].m["url"].s)
                            THEN "dest" ELSE "store",
                     !.how = "download"])
    /\ ThreadFrame
    /\ UNCHANGED <<data, _files, BASE_CONFIG, files, dirs>>

\* the directory download is given: x.get('download_dest', default)
DownloadDest(x) ==
    IF "download_dest" \in DOMAIN x.m THEN x.m["download_dest"].s
    ELSE default_download_path

\* download: requests.get and the test of dest.exists(), which leads to the
\* misspelt dest.existst()
t_dest(t) ==
    /\ threads[t].pc = "dest"
    /\ Becomes(t, IF DownloadDest(data.m[threads[t].name]) \in dirs
                  THEN Ends(threads[t], "AttributeError", VNone, "")
                  ELSE [threads[t] EXCEPT !.pc = "write"])
    /\ ThreadFrame
    /\ UNCHANGED <<data, _files, BASE_CONFIG, files, dirs>>

\* download: dest.parent.mkdir when it is no directory, dest.write_bytes
t_write(t) ==
    /\ threads[t].pc = "write"
    /\ LET dest == DownloadDest(data.m[threads[t].name])
       IN  /\ dirs' = dirs \cup {dest}
           /\ files' = files \cup {<<dest, threads[t].fname>>}
           /\ Becomes(t, [threads[t] EXCEPT
                            !.pc = "store",
                            !.path = VPath(dest, threads[t].fname)])
    /\ ThreadFrame
    /\ UNCHANGED <<data, _files, BASE_CONFIG>>

\* x['_path'] = path, with the path download returned or the search found,
\* and return path
t_store(t) ==
    /\ threads[t].pc = "store"
    /\ data' = VMap([data.m EXCEPT ![threads[t].name] =
                       VMap(("_path" :> threads[t].path) @@ @.m)])
    /\ Becomes(t, Ends(threads[t], "", threads[t].path, threads[t].how))
    /\ ThreadFrame
    /\ UNCHANGED <<_files, BASE_CONFIG, files, dirs>>

\* the candidate list: p = x['paths'], grown in place by p +=
\* self.default_paths, or the list self.default_paths itself
t_list(t) ==
    /\ threads[t].pc = "list"
    /\ LET name == threads[t].name
           x == data.m[name]
           has == "paths" \in DOMAIN x.m
           grow == has /\ threads[t].try_default_paths
       IN  /\ data' = IF grow
                      THEN VMap([data.m EXCEPT ![name] =
                             VMap([x.m EXCEPT !["paths"] =
                                     VList(@.l \o default_paths, @.shared)])])
                      ELSE data
           /\ BASE_CONFIG' =
                IF grow /\ x.m["paths"].shared
                THEN VMap([BASE_CONFIG.m EXCEPT ![name] =
                       VMap([@.m EXCEPT !["paths"] =
                               VList(x.m["paths"].l \o default_paths, TRUE)])])
                ELSE BASE_CONFIG
           /\ Becomes(t, [threads[t] EXCEPT !.pc = "iter", !.own = has])
    /\ ThreadFrame
    /\ UNCHANGED <<_files, files, dirs>>

\* the list object thread t iterates over, as it is now
ListOf(th) ==
    IF th.own THEN data.m[th.name].m["paths"].l ELSE default_paths

\* one turn of the loop: the next root of the list, skipped when its
\* directory was tried, else tested with _p.exists()
t_iter(t) ==
    /\ threads[t].pc = "iter"
    /\ LET th == threads[t]
           p == ListOf(th)
       IN  Becomes(t,
             IF th.idx > Len(p) THEN [th EXCEPT !.pc = "miss"]
             ELSE IF p[th.idx] \in th.tried THEN [th EXCEPT !.idx = @ + 1]
             ELSE IF <<p[th.idx], th.fname>> \in files
             THEN [th EXCEPT !.pc = "store", !.how = "search",
                             !.tests = Append(@, p[th.idx]),
                             !.path = VPath(p[th.idx], th.fname)]
             ELSE [th EXCEPT !.idx = @ + 1, !.tried = @ \cup {p[th.idx]},
                             !.tests = Append(@, p[th.idx])])
    /\ ThreadFrame
    /\ UNCHANGED <<data, _files, BASE_CONFIG, files, dirs>>

\* path is None after the loop: raise FileNotFoundError, or build the path
\* under dest_path (p[0] when it is True) and return it
t_miss(t) ==
    /\ threads[t].pc = "miss"
    /\ LET th == threads[t]
           p == ListOf(th)
       IN  Becomes(t,
             IF th.dest_path = VNone
             THEN Ends(th, "FileNotFoundError", NotFound(th.fname, th.name, p), "")
             ELSE IF th.dest_path = VBool(TRUE) /\ p = <<>>
             THEN Ends(th, "IndexError", VNone, "")
             ELSE Ends(th, "", VPath(fallback_root(th.dest_path, p), th.fname),
                       "fallback"))
    /\ ThreadFrame
    /\ UNCHANGED <<data, _files, BASE_CONFIG, files, dirs>>

-----------------------------------------------------------------------------
(* Environments and inputs *)

Descriptor(sh) == VMap(Dict2("name", VStr("f"), "paths", VList(<<"A">>, sh)))
Plain == VMap(Dict1("y", VInt(1)))

\* an embedded base config as interpret_resource gives it: its lists are the
\* list objects params.BASE_CONFIG holds
BaseTree == VMap(Dict3("res", Descriptor(TRUE), "x", Plain, "n", VInt(5)))
FileTree == VMap(Dict3("res", Descriptor(FALSE), "x", Plain, "n", VInt(5)))
ExtraTree == VMap(Dict2("res", VMap(Dict1("paths", VList(<<".">>, FALSE))),
                        "x", VMap(Dict1("y", VInt(3)))))

Params(user, install, create) ==
    [DEFAULT_CONFIG_FILE |-> user, INSTALL_CONFIG_FILE |-> install,
     CREATE_USER_CONFIG_IF_NONE |-> create]

NoFiles == [p \in CfgPaths |-> Absent]

Env(explicit, base, prm, fs) ==
    [path |-> explicit, base |-> base, params |-> prm, cfg |-> fs]

\* the package with an embedded base config and a JSON user file to create
EnvLayered ==
    Env(NoPath, BaseTree, Params(UserJson, InstallYml, TRUE),
        [NoFiles EXCEPT ![ExtraYml] = ExtraTree])
\* the package with an embedded base config and no user file
EnvBase ==
    Env(NoPath, BaseTree, Params(UserYml, InstallYml, FALSE),
        [NoFiles EXCEPT ![ExtraYml] = ExtraTree])
\* a config built on an explicit JSON file
EnvExplicit ==
    Env(ExplicitJson, BaseTree, Params(UserYml, InstallYml, TRUE),
        [NoFiles EXCEPT ![ExplicitJson] = FileTree, ![ExtraYml] = ExtraTree])
\* the package as shipped (no base config), with a YAML user file in place
EnvUserYml ==
    Env(NoPath, VNone, Params(UserYml, InstallYml, TRUE),
        [NoFiles EXCEPT ![UserYml] = FileTree, ![ExtraYml] = ExtraTree])

InitWith(E) ==
    /\ pc = "unloaded"
    /\ \E e \in E :
         /\ path = e.path
         /\ BASE_CONFIG = e.base
         /\ params = e.params
         /\ cfg = e.cfg
    /\ data = VMap(EmptyDict)
    /\ _files = EmptyDict
    /\ _updated = FALSE
    /\ default_paths = <<".">>
    /\ default_download_path = "."
    /\ files = {}
    /\ dirs = {".", "A"}
    /\ cv = [i \in CVs |-> [_cached |-> FALSE, _value |-> VNone]]
    /\ last = NoCall
    /\ calls = 0
    /\ hist = [NoHist EXCEPT !.cfg0 = cfg]
    /\ threads = [t \in Threads |-> Idle]

-----------------------------------------------------------------------------
(* Spec: the resource descriptor `res` through every operation *)

Init == InitWith({EnvBase, EnvLayered})

Download == VMap(Dict2("url", VStr("ub"), "download_dest", VStr("D")))
NotAFile == VMap(Dict1("is_file", VBool(FALSE)))
Renamed == VMap(Dict1("name", VStr("res")))

Next ==
    \/ __init__
    \/ reload
    \/ \E deep \in BOOLEAN : expand(ExtraYml, deep)
    \/ replace_data(VMap(Dict1("res", VMap(Dict1("name", VStr("f"))))))
    \/ update(Dict1("res", VMap(Dict1("name", VStr("f")))))
    \/ \E u \in {NotAFile, Renamed} : deep_update(NoHandlers, Dict1("res", u))
    \/ \E s \in {<<"x", VInt(2)>>, <<"res", Download>>} : set(s[1], s[2])
    \/ save(NoPath)
    \/ add_default_location("A", FALSE)
    \/ call_is_subconfig_file("res")
    \/ \E t \in BOOLEAN, dp \in {VNone, VBool(TRUE)} :
           call_get_subconfig_path("res", t, dp)
    \/ \E rf \in BOOLEAN : call_get("res", VInt(7), TRUE, VNone, rf)
    \/ touch("A", "f")

Spec == Init /\ [][Next]_vars

-----------------------------------------------------------------------------
(* Properties of the resolution cache *)

Resolution == last.op \in {"get_subconfig_path", "get"} /\ ~last.read_file

\* C1 (as stated): once get_subconfig_path has populated `_path` for a key,
\* every later get_subconfig_path / get(read_file=False) call for that key
\* made before a reload, replace or overwrite of the key returns that
\* same path and makes neither a download nor a file-existence test.
C1_CachedPathReturned ==
    (Resolution /\ last.pinned # VNone)
        => /\ last.exc = ""
           /\ last.ret = last.pinned
           /\ last.tests = <<>>
           /\ last.dl = <<>>

\* C1 (amended): the same, for keys into which no `is_file` or `_path` field
\* has been merged since the path was populated.
C1_CachedPathReturnedUnlessReclassified ==
    (Resolution /\ last.pinned # VNone /\ ~last.touched)
        => /\ last.exc = ""
           /\ last.ret = last.pinned
           /\ last.tests = <<>>
           /\ last.dl = <<>>

\* a cached path returned after a deep merge changed the resolved descriptor
C1_Witness ==
    /\ Resolution
    /\ last.pinned # VNone
    /\ last.merged
    /\ ~last.touched
    /\ last.ret = last.pinned
    /\ last.how = "cached"

\* C2: after a descriptor has been resolved, a reload makes the next
\* resolution of the same key run the search/download again (it is not
\* answered from a cached `_path`), whatever was done between the resolution
\* and the reload.
C2_ReloadDropsCache ==
    (last.op \in {"get_subconfig_path", "get"} /\ last.afterReload)
        => last.how # "cached"

\* C3: with the layer files as construction left them, the tree after
\* reload() equals the tree construction produced, `paths` lists included.
C3_ReloadRestoresTree ==
    (last.op = "reload" /\ last.exc = "" /\ cfg = hist.cfg0)
        => by_value(data) = by_value(hist.tree0)

-----------------------------------------------------------------------------
(* SpecCV: ConfigValue reads interleaved with mutations of the config *)

InitCV == InitWith({EnvBase, EnvLayered, EnvUserYml})

\* x.y merges, then n (an int in the tree) meets a mapping and the merge raises
HalfMerge == Dict2("x", VMap(Dict1("y", VInt(4))), "n", VMap(Dict1("w", VInt(1))))

NextCV ==
    \/ __init__
    \/ reload
    \/ set("n", VInt(6))
    \/ update(Dict1("n", VInt(7)))
    \/ \E u \in {Dict1("x", VMap(Dict1("y", VInt(2)))), HalfMerge} :
           deep_update(NoHandlers, u)
    \/ \E deep \in BOOLEAN : expand(ExtraYml, deep)
    \/ replace_data(VMap(Dict1("x", VMap(Dict1("y", VInt(9))))))
    \/ replace_path(ExtraYml)
    \/ save(NoPath)
    \/ call_get("x", VNone, TRUE, VNone, FALSE)
    \/ \E i \in CVs : value(i)

SpecCV == InitCV /\ [][NextCV]_vars

Mutators == {"set", "update", "deep_update", "expand", "replace"}

\* C4 (as stated): immediately after reload() the dirty flag is cleared, as it
\* is immediately after construction.
C4_ReloadClearsDirty ==
    (pc = "loaded" /\ last.op \in {"__init__", "reload"} /\ last.exc = "")
        => ~_updated

\* C4 (amended): construction leaves the dirty flag clear; reload() leaves it
\* set.
C4_ReloadSetsDirty ==
    /\ (pc = "loaded" /\ last.op = "__init__") => ~_updated
    /\ (last.op = "reload" /\ last.exc = "") => _updated

\* a reload made directly on the freshly constructed (clean) config
C4_Witness == last.op = "reload" /\ last.exc = "" /\ calls = 1

\* C5: every successful set / update / deep_update / expand / replace leaves
\* the dirty flag true, and no operation other than reload takes it from true
\* to false.
C5_DirtySticky ==
    [][/\ (last'.op \in Mutators /\ last'.exc = "") => _updated'
       /\ (_updated /\ last'.op # "reload") => _updated']_vars

\* a dirty config read through a ConfigValue, the flag still set afterwards
C5_Witness == last.op = "value" /\ last.extracted /\ ~last.stale /\ _updated

\* C6: the first read of an instance after a mutation of the tree (and the
\* first read of a never-read instance) returns the value an extraction from
\* the current tree gives.
C6_FirstReadFresh ==
    (last.op = "value" /\ last.stale /\ last.exc = "")
        => last.extracted /\ last.ret = last.fresh

\* C7: a read of an instance that has extracted since the last mutation is
\* answered from its cache, without a lookup in the config.
C7_CachedUntilMutation ==
    (last.op = "value" /\ ~last.stale) => ~last.extracted

-----------------------------------------------------------------------------
(* SpecLoad: construction and reload over every combination of layers *)

BaseAB == VMap(Dict2("a", VInt(1), "b", VInt(1)))
InstalledBC == VMap(Dict2("b", VInt(2), "c", VInt(2)))
\* x merges key by key; n is an empty mapping where the base holds an int
InstalledXN == VMap(Dict2("x", VMap(Dict1("w", VInt(2))), "n", VMap(EmptyDict)))
UserC == VMap(Dict1("c", VInt(3)))
UserX == VMap(Dict1("x", VInt(2)))
\* n is a mapping where the base holds an int
UserN == VMap(Dict1("n", VMap(Dict1("w", VInt(1)))))

LoadEnvs ==
    { Env(explicit, base, Params(user, install, create),
          [NoFiles EXCEPT ![InstallYml] = i, ![user] = u,
                          ![ExplicitJson] = FileTree, ![NotesTxt] = FileTree])
      : explicit \in {NoPath, ExplicitJson, NotesTxt},
        base \in {VNone, BaseAB, BaseTree},
        user \in {UserYml, UserJson},
        install \in {InstallYml, NoPath},
        create \in BOOLEAN,
        i \in {Absent, InstalledBC, InstalledXN},
        u \in {Absent, UserC, UserX, UserN} }

InitLoad == InitWith(LoadEnvs)

NextLoad ==
    \/ __init__
    \/ reload
    \/ set("c", VInt(4))
    \/ save(NoPath)

SpecLoad == InitLoad /\ [][NextLoad]_vars

RECURSIVE Over(_, _)
\* precedence merge: hi wins wherever it defines a value, two mappings are
\* merged key by key
Over(lo, hi) ==
    IF lo.kind = "map" /\ hi.kind = "map"
    THEN VMap([k \in DOMAIN lo.m \cup DOMAIN hi.m |->
                 IF k \notin DOMAIN hi.m THEN lo.m[k]
                 ELSE IF k \notin DOMAIN lo.m THEN hi.m[k]
                 ELSE Over(lo.m[k], hi.m[k])])
    ELSE hi

\* a layer as a mapping: nothing when the layer is not there
Layer(v) == IF v \in {VNone, Absent} THEN VMap(EmptyDict) ELSE by_value(v)
InstalledLayer ==
    IF params.INSTALL_CONFIG_FILE = NoPath THEN Layer(Absent)
    ELSE Layer(cfg[params.INSTALL_CONFIG_FILE])
\* the user layer construction saw
UserLayer ==
    IF hist.absent0 THEN Layer(Absent) ELSE Layer(cfg[params.DEFAULT_CONFIG_FILE])

\* C8: without an explicit path the constructed tree is the precedence merge
\* of embedded base, installed and user layers (user > installed > embedded,
\* nested mappings merged key by key).
C8_LayerPrecedence ==
    (pc = "loaded" /\ last.op = "__init__" /\ path = NoPath)
        => by_value(data) = Over(Over(Layer(BASE_CONFIG), InstalledLayer), UserLayer)

\* the merge of the embedded base and the installed file, as _load_init makes it
LowerLayers ==
    merge_file(cfg, params.INSTALL_CONFIG_FILE,
               IF BASE_CONFIG # VNone
               THEN dict_deep_update(VMap(EmptyDict), BASE_CONFIG.m, NoHandlers)
               ELSE [exc |-> "", d |-> VMap(EmptyDict)])

\* C9: loading without an explicit path, with the user file absent and
\* auto-creation enabled, succeeds and creates the user file holding an empty
\* mapping, whatever the base and installed layers (merged without error) hold.
C9_UserFileCreatedEmpty ==
    (/\ last.op = "__init__" /\ path = NoPath
     /\ hist.absent0 /\ params.CREATE_USER_CONFIG_IF_NONE
     /\ LowerLayers.exc = "")
        => /\ last.exc = ""
           /\ cfg[params.DEFAULT_CONFIG_FILE] = VMap(EmptyDict)

\* C10: with an explicit path the tree after construction and after every
\* reload is the content of that file alone, and a user file that was absent
\* stays absent.
C10_ExplicitPathSoleSource ==
    (/\ pc = "loaded" /\ path # NoPath
     /\ last.op \in {"__init__", "reload"} /\ last.exc = "")
        => /\ data = cfg[path]
           /\ hist.absent0 => cfg[params.DEFAULT_CONFIG_FILE] = Absent

\* a reload of an explicit file that was changed and saved, in a package that
\* has a base config, an installed file and auto-creation enabled
C10_Witness ==
    /\ path # NoPath
    /\ last.op = "reload" /\ last.exc = ""
    /\ data # hist.tree0
    /\ BASE_CONFIG # VNone
    /\ InstalledLayer # Layer(Absent)
    /\ hist.absent0 /\ params.CREATE_USER_CONFIG_IF_NONE

-----------------------------------------------------------------------------
(* SpecClass: classification of the value stored under a key *)

InitClass == InitWith({EnvBase})

EmptyMap == VMap(EmptyDict)
OnlyDest == VMap(Dict1("download_dest", VStr("D")))
Named == VMap(Dict1("name", VStr("f")))

NextClass ==
    \/ __init__
    \/ reload
    \/ \E v \in {Named, Plain, EmptyMap, OnlyDest} : set("res", v)
    \/ update(Dict1("res", Plain))
    \/ deep_update(NoHandlers, Dict1("res", Plain))
    \/ \E deep \in BOOLEAN : expand(ExtraYml, deep)
    \/ \E v \in {Named, Plain} : replace_data(VMap(Dict1("res", v)))
    \/ replace_path(ExtraYml)
    \/ \E k \in {"res", "x"} : call_is_subconfig_file(k)
    \/ \E rf \in BOOLEAN : call_get("res", VInt(7), TRUE, VNone, rf)
    \/ touch("A", "f")

SpecClass == InitClass /\ [][NextClass]_vars

\* a mapping that carries no explicit is_file
Unflagged(v) == v.kind = "map" /\ "is_file" \notin DOMAIN v.m

\* C11: for a key whose current value is a mapping without is_file,
\* is_subconfig_file(key) is true iff the value's keys all lie in
\* {name, url, paths, is_file, download_dest, _path}, whatever was stored
\* under the key before.
C11_ClassifiedByCurrentKeys ==
    (/\ last.op = "is_subconfig_file" /\ last.exc = ""
     /\ Unflagged(data.m[last.name]))
        => last.ret = VBool(DOMAIN data.m[last.name].m \subseteq DescriptorKeys)

\* what a caller sees of a call: the exception and the value returned
Seen(o) == <<o.exc, o.ret>>

\* C12: right after replace, is_subconfig_file and resolution answer for
\* every key as they do on a fresh config (empty classification cache)
\* holding the same tree.
C12_ReplaceStartsAfresh ==
    (last.op = "replace" /\ last.exc = "")
        => \A k \in DOMAIN data.m :
             /\ Seen(is_subconfig_file(data, _files, k))
                  = Seen(is_subconfig_file(data, EmptyDict, k))
             /\ Seen(get(data, _files, k, VNone, TRUE, VBool(TRUE), FALSE))
                  = Seen(get(data, EmptyDict, k, VNone, TRUE, VBool(TRUE), FALSE))

\* C13: get(key) on a mapping that has none of name, url, paths (and no
\* is_file, and no classification remembered for the key) returns the mapping
\* itself and makes no existence test, download or read.
C13_NoFieldsIsPlainValue ==
    [][(/\ last'.op = "get" /\ calls' = calls + 1
        /\ last'.name \in DOMAIN data.m
        /\ last'.name \notin DOMAIN _files
        /\ Unflagged(data.m[last'.name])
        /\ DOMAIN data.m[last'.name].m \cap {"name", "url", "paths"} = {})
           => /\ last'.exc = ""
              /\ last'.ret = data.m[last'.name]
              /\ last'.tests = <<>>
              /\ last'.dl = <<>>]_vars

-----------------------------------------------------------------------------
(* SpecFind: resolution of a descriptor by search or download *)

InitFind == InitWith({EnvBase})

TwoRoots ==
    VMap(Dict2("name", VStr("f"), "paths", VList(<<"A", "B">>, FALSE)))
NoRoots == VMap(Dict2("name", VStr("f"), "paths", VList(<<>>, FALSE)))
Remote == VMap(Dict1("url", VStr("ub")))

NextFind ==
    \/ __init__
    \/ \E v \in {TwoRoots, NoRoots, Named, Remote} : set("res", v)
    \/ add_default_location("B", FALSE)
    \/ set_default_download_location("D")
    \/ \E f \in {<<"A", "f">>, <<"B", "f">>, <<".", "res">>} : touch(f[1], f[2])
    \/ \E t \in BOOLEAN, dp \in {VNone, VBool(TRUE), VStr("C")} :
           call_get_subconfig_path("res", t, dp)
    \/ \E rf \in BOOLEAN, dp \in {VNone, VBool(TRUE)} :
           call_get("res", VInt(7), TRUE, dp, rf)

SpecFind == InitFind /\ [][NextFind]_vars

\* the candidate roots of descriptor x and the file name searched for key k
Cands(x, try_default_paths) ==
    IF "paths" \in DOMAIN x.m
    THEN (IF try_default_paths THEN x.m["paths"].l \o default_paths
          ELSE x.m["paths"].l)
    ELSE default_paths
FileName(x, k) == IF "name" \in DOMAIN x.m THEN x.m["name"].s ELSE k
Hits(p, fname) == {i \in 1..Len(p) : <<p[i], fname>> \in files}
First(I) == CHOOSE i \in I : \A j \in I : i <= j

\* the step is a call resolving key k, held as an uncached descriptor that
\* passes the classification
Resolving(k) ==
    /\ calls' = calls + 1
    /\ last'.op \in {"get_subconfig_path", "get"}
    /\ last'.name = k
    /\ k \in DOMAIN data.m
    /\ data.m[k].kind = "map"
    /\ "_path" \notin DOMAIN data.m[k].m
    /\ Truthy(is_subconfig_file(data, _files, k).ret)
HasUrl(x) == "url" \in DOMAIN x.m /\ x.m["url"] # VNone

\* C14: an uncached descriptor without url resolves to root/name for the
\* first candidate root, in list order, at which the file exists, and `_path`
\* is set to that value.
C14_FirstMatch ==
    [][\A k \in TopKeys :
         (/\ Resolving(k) /\ ~last'.read_file /\ ~HasUrl(data.m[k])
          /\ Hits(Cands(data.m[k], last'.try_default_paths),
                  FileName(data.m[k], k)) # {})
            => LET p == Cands(data.m[k], last'.try_default_paths)
                   fname == FileName(data.m[k], k)
               IN  /\ last'.exc = ""
                   /\ last'.ret = VPath(p[First(Hits(p, fname))], fname)
                   /\ data'.m[k].m["_path"] = last'.ret]_vars

\* two roots that both hold the file, the first one returned
C14_Witness ==
    /\ last.op = "get_subconfig_path" /\ last.how = "search"
    /\ last.ret = VPath("A", "f")
    /\ {<<"A", "f">>, <<"B", "f">>} \subseteq files
    /\ data.m["res"].m["paths"].l[1] = "A"
    /\ \E i \in 2..Len(data.m["res"].m["paths"].l) :
           data.m["res"].m["paths"].l[i] = "B"

\* C15: an uncached descriptor with a url is resolved by one call of the
\* downloader with (url, download_dest or the default download location,
\* name or the key) and without any existence test of the search roots.
C15_DownloadFirst ==
    [][\A k \in TopKeys :
         (Resolving(k) /\ HasUrl(data.m[k]))
            => LET x == data.m[k]
               IN  /\ last'.dl =
                        <<[url |-> x.m["url"].s,
                           dest |-> IF "download_dest" \in DOMAIN x.m
                                    THEN x.m["download_dest"].s
                                    ELSE default_download_path,
                           name |-> FileName(x, k)]>>
                   /\ last'.tests = <<>>]_vars

\* a download made while a file of that name lies under a candidate root
C15_Witness ==
    /\ last.op = "get_subconfig_path" /\ last.how = "download"
    /\ last.dl # <<>>
    /\ <<".", "res">> \in files
    /\ "." \in {default_paths[i] : i \in 1..Len(default_paths)}
    /\ last.ret = VPath("D", "res")

\* the step resolves k, an uncached url-less descriptor no candidate root
\* holds, through get_subconfig_path or get(read_file=False)
Missing(k) ==
    /\ Resolving(k) /\ ~last'.read_file /\ ~HasUrl(data.m[k])
    /\ Hits(Cands(data.m[k], last'.try_default_paths),
            FileName(data.m[k], k)) = {}

\* C16 (as stated): when no candidate exists, dest_path=True gives
\* candidate_roots[0]/name and a directory dest_path gives directory/name,
\* without raising.
C16_DestPathFallback ==
    [][\A k \in TopKeys :
         (Missing(k) /\ last'.dest_path # VNone)
            => /\ last'.exc = ""
               /\ last'.ret =
                    VPath(IF last'.dest_path = VBool(TRUE)
                          THEN Cands(data.m[k], last'.try_default_paths)[1]
                          ELSE last'.dest_path.s,
                          FileName(data.m[k], k))]_vars

\* C16 (amended): the same when the candidate list is not empty or dest_path
\* is a directory; dest_path=True with an empty candidate list raises
\* IndexError.
C16_DestPathFallbackNonEmpty ==
    [][\A k \in TopKeys :
         (Missing(k) /\ last'.dest_path # VNone)
            => LET p == Cands(data.m[k], last'.try_default_paths)
               IN  IF last'.dest_path = VBool(TRUE) /\ p = <<>>
                   THEN last'.exc = "IndexError"
                   ELSE /\ last'.exc = ""
                        /\ last'.ret =
                             VPath(IF last'.dest_path = VBool(TRUE) THEN p[1]
                                   ELSE last'.dest_path.s,
                                   FileName(data.m[k], k))]_vars

\* a fallback path returned for a file that does not exist, with more than
\* one candidate root
C16_Witness ==
    /\ last.op = "get_subconfig_path" /\ last.how = "fallback"
    /\ last.dest_path = VBool(TRUE)
    /\ last.ret = VPath("A", "f")
    /\ <<"A", "f">> \notin files
    /\ Len(last.tests) >= 2

\* C17: when no candidate root holds the file and no dest_path is given, the
\* resolution raises FileNotFoundError with a message naming the key and the
\* candidate list, and get() lets it through instead of returning default.
C17_NotFoundRaised ==
    [][\A k \in TopKeys :
         (/\ Resolving(k) /\ ~HasUrl(data.m[k])
          /\ Hits(Cands(data.m[k], last'.try_default_paths),
                  FileName(data.m[k], k)) = {}
          /\ last'.dest_path = VNone)
            => /\ last'.exc = "FileNotFoundError"
               /\ last'.ret.key = k
               /\ last'.ret.paths = Cands(data.m[k], last'.try_default_paths)]_vars

\* get() raising not-found after testing the candidate roots
C17_Witness ==
    /\ last.op = "get" /\ last.exc = "FileNotFoundError"
    /\ last.tests # <<>>
    /\ last.ret.key = "res"


\* the positions of p holding a root for the first time, up to the first
\* root at which fname exists
Visited(p, fname) ==
    {i \in 1..Len(p) :
       /\ \A j \in 1..(i - 1) : p[j] # p[i]
       /\ \A j \in 1..(i - 1) : <<p[j], fname>> \notin files}
\* the n-th smallest element of a set of positions
Nth(I, n) == CHOOSE i \in I : Cardinality({j \in I : j < i}) = n - 1

\* C24: for an uncached descriptor without url the directories tested for
\* existence are those of the candidate list (the descriptor's paths,
\* followed by the default roots when try_default_paths is set, else the
\* default roots), in list order up to the first hit, each tested once.
C24_CandidatesTestedOnce ==
    [][\A k \in TopKeys :
         (Resolving(k) /\ ~HasUrl(data.m[k]))
            => LET p == Cands(data.m[k], last'.try_default_paths)
                   I == Visited(p, FileName(data.m[k], k))
               IN  /\ Len(last'.tests) = Cardinality(I)
                   /\ \A n \in 1..Len(last'.tests) :
                         last'.tests[n] = p[Nth(I, n)]
                   /\ \A m, n \in 1..Len(last'.tests) :
                         last'.tests[m] = last'.tests[n] => m = n]_vars

\* a failed search over a candidate list that names a root more than once
C24_Witness ==
    /\ last.op = "get_subconfig_path" /\ last.exc = "FileNotFoundError"
    /\ last.tests = <<"A", "B", ".">>
    /\ Len(last.ret.paths) > 3

\* C27: a resolution that does not succeed by search (it raises not-found
\* or returns the dest_path fallback) leaves the tree as it was, the
\* descriptor's `paths` list included, so that the same call made again
\* goes through the same candidate list.
C27_FailedSearchLeavesTree ==
    [][\A k \in TopKeys :
         Missing(k)
            => /\ last'.how \in {"", "fallback"}
               /\ data' = data
               /\ Cands(data'.m[k], last'.try_default_paths)
                     = Cands(data.m[k], last'.try_default_paths)]_vars

\* C29: the dest_path fallback is not cached: after a call answered by the
\* fallback the descriptor has no `_path`, the next resolution of the key
\* searches the roots again, and when the file by then lies under a
\* candidate root that call returns the first such location and caches it.
C29_FallbackNotCached ==
    [][\A k \in TopKeys :
         /\ (last'.how = "fallback" /\ last'.name = k)
               => "_path" \notin DOMAIN data'.m[k].m
         /\ (/\ k \in hist.fellback
             /\ calls' = calls + 1
             /\ last'.op \in {"get_subconfig_path", "get"}
             /\ last'.name = k /\ ~last'.read_file)
               => LET p == Cands(data.m[k], last'.try_default_paths)
                      fname == FileName(data.m[k], k)
                  IN  /\ "_path" \notin DOMAIN data.m[k].m
                      /\ last'.how # "cached"
                      /\ p # <<>> => last'.tests # <<>>
                      /\ Hits(p, fname) # {}
                            => /\ last'.exc = "" /\ last'.how = "search"
                               /\ last'.ret = VPath(p[First(Hits(p, fname))], fname)
                               /\ data'.m[k].m["_path"] = last'.ret]_vars

\* a fallback answer, then the file created under a root, then a search hit
\* that is cached
C29_Witness ==
    /\ last.op = "get_subconfig_path" /\ last.how = "search"
    /\ last.name = "res" /\ last.dest_path # VNone
    /\ last.fellback
    /\ data.m["res"].m["_path"] = last.ret

-----------------------------------------------------------------------------
(* Deep merge: PkgConfig.deep_update over bounded pairs of mappings *)

InitMerge == InitWith({EnvBase})

Ints(i) == VList(<<VInt(i)>>, FALSE)

\* the mappings put in place of the loaded data
MergeBases ==
    { VMap(EmptyDict),
      VMap(Dict1("a", VInt(1))),
      VMap(Dict1("a", Ints(1))),
      VMap(Dict1("a", VMap(Dict1("c", VInt(1))))),
      VMap(Dict2("a", VInt(1), "b", VMap(Dict1("c", Ints(1))))) }

\* the keyword arguments of deep_update
MergeUpdates ==
    { Dict1("a", VInt(2)),
      Dict1("a", Ints(2)),
      Dict1("a", VMap(EmptyDict)),
      Dict1("a", VMap(Dict1("c", VInt(2)))),
      Dict2("a", Ints(2), "b", Ints(3)),
      Dict2("a", VInt(2), "b", VMap(Dict1("c", Ints(2)))) }

NextMerge ==
    \/ __init__
    \/ \E A \in MergeBases : replace_data(A)
    \/ \E B \in MergeUpdates, h \in {NoHandlers, ListAdd} : deep_update(h, B)

SpecMerge == InitMerge /\ [][NextMerge]_vars

\* one of the two values is a mapping and the other is not
KindsDiffer(b, u) == (b.kind = "map") # (u.kind = "map")

RECURSIVE LastWriteWins(_, _, _)
\* res holds the update's value at every key, at any depth, where the update
\* and the base differ in kind
LastWriteWins(base, upd, res) ==
    /\ res.kind = "map"
    /\ \A k \in DOMAIN upd.m \cap DOMAIN base.m :
          /\ k \in DOMAIN res.m
          /\ KindsDiffer(base.m[k], upd.m[k]) => res.m[k] = upd.m[k]
          /\ (base.m[k].kind = "map" /\ upd.m[k].kind = "map")
                => LastWriteWins(base.m[k], upd.m[k], res.m[k])

\* the step is a deep_update made with no handlers
MergedPlain == last'.op = "deep_update" /\ last'.handlers = NoHandlers

\* C18: a merge of two mappings with no handlers completes without error,
\* and wherever the update's value and the base's value differ in kind
\* (mapping against scalar or sequence, either way) the result holds the
\* update's value under that key.
C18_MergeTotalLastWriteWins ==
    [][MergedPlain => (/\ last'.exc = ""
                       /\ LastWriteWins(data, VMap(last'.arg), data'))]_vars

\* C19: with no handlers, merging B into the result of merging B into A
\* gives that result again, for any two mappings A and B.
C19_MergeIdempotent ==
    [][MergedPlain
         => (/\ last'.exc = ""
             /\ \E again \in {dict_deep_update(data', last'.arg, NoHandlers)} :
                   again.exc = "" /\ again.d = data')]_vars

\* the handler calls made on values stored directly under the merged mapping
TopCalls(hc) == {i \in DOMAIN hc : Len(hc[i].k) = 1}

\* C20: in a merge that completes, a non-mapping update value v under a key
\* k that the base already holds and whose type has a handler leaves
\* handler(old value, v) under k, the handler being called once with these
\* two values; when k is absent from the base, or v's type has no handler, v
\* is stored under k and no handler is called for k.  Whether the merge
\* completes or not, a handler is only ever called under the first condition.
C20_HandlerDispatch ==
    [][last'.op = "deep_update"
         => (/\ \A i \in TopCalls(last'.hc) :
                  \E k \in DOMAIN last'.arg \cap DOMAIN data.m :
                      /\ last'.hc[i] = [k |-> <<k>>, old |-> data.m[k],
                                        new |-> last'.arg[k]]
                      /\ last'.arg[k].kind # "map"
                      /\ last'.arg[k].kind \in DOMAIN last'.handlers
             /\ last'.exc = ""
                  => \A k \in DOMAIN last'.arg :
                       last'.arg[k].kind # "map"
                         => IF k \in DOMAIN data.m
                               /\ last'.arg[k].kind \in DOMAIN last'.handlers
                            THEN /\ data'.m[k]
                                      = CallHandler(
                                          last'.handlers[last'.arg[k].kind],
                                          data.m[k], last'.arg[k]).v
                                 /\ Cardinality(
                                      {i \in TopCalls(last'.hc) :
                                         last'.hc[i].k = <<k>>}) = 1
                            ELSE /\ data'.m[k] = last'.arg[k]
                                 /\ \A i \in TopCalls(last'.hc) :
                                       last'.hc[i].k # <<k>>)]_vars

\* a merge in which the list handler extended one stored list and a second
\* list was stored under a key the base did not hold
C20_Witness ==
    /\ last.op = "deep_update" /\ last.exc = "" /\ last.handlers = ListAdd
    /\ last.arg = Dict2("a", Ints(2), "b", Ints(3))
    /\ Len(last.hc) = 1
    /\ data = VMap(Dict2("a", VList(<<VInt(1), VInt(2)>>, FALSE), "b", Ints(3)))


-----------------------------------------------------------------------------
(* Validation of configuration files: construction, replace and expand *)

\* a config built on each kind of explicit path: an existing .json, .YML,
\* .yaml and .txt file and a missing .yml file
ValidEnvs ==
    { Env(explicit, BaseTree, Params(UserYml, InstallYml, FALSE),
          [NoFiles EXCEPT ![ExplicitJson] = FileTree, ![ExtraYml] = ExtraTree,
                          ![ConfYaml] = FileTree, ![NotesTxt] = FileTree])
      : explicit \in {NoPath, ExplicitJson, ExtraYml, ConfYaml, NotesTxt, GoneYml} }

InitValid == InitWith(ValidEnvs)

ReadPaths == {ExplicitJson, ExtraYml, ConfYaml, NotesTxt, GoneYml, OutJson}

NextValid ==
    \/ __init__
    \/ \E p \in ReadPaths : replace_path(p)
    \/ \E p \in ReadPaths, deep \in BOOLEAN : expand(p, deep)
    \/ save(OutJson)

SpecValid == InitValid /\ [][NextValid]_vars

\* the suffixes accepted, in either case
GoodExt == {".yml", ".yaml", ".json", ".YML", ".YAML", ".JSON"}

\* the last call read a configuration file named by the caller
ReadCall ==
    /\ last.op \in {"__init__", "replace", "expand"}
    /\ last.file # NoPath

\* C21: construction with an explicit path, replace(path) and expand(path)
\* raise the validation error exactly when the file is missing or its suffix
\* is none of .yml, .yaml, .json in either case; an existing file with one
\* of these suffixes is read, and its document becomes the tree at
\* construction and replace.
C21_ExtensionValidation ==
    ReadCall
      => /\ (last.exc = "ConfigFileError")
              <=> (cfg[last.file] = Absent \/ last.file.ext \notin GoodExt)
         /\ (last.op # "expand" /\ last.exc # "ConfigFileError")
              => (last.exc = "" /\ data = cfg[last.file])

\* a construction on an existing .txt file, refused
C21_Witness ==
    /\ pc = "failed" /\ last.op = "__init__" /\ last.file = NotesTxt
    /\ cfg[NotesTxt] # Absent /\ last.exc = "ConfigFileError"


-----------------------------------------------------------------------------
(* get and read_subconfig: absent keys, defaults and dest_path *)

InitGet == InitWith({EnvBase})

DestPaths == {VNone, VBool(TRUE), VStr("C")}

NextGet ==
    \/ __init__
    \/ replace_data(VMap(Dict1("x", Plain)))
    \/ \E v \in {Named, VInt(3)} : set("res", v)
    \/ \E k \in {"res", "w"} : call_is_subconfig_file(k)
    \/ \E k \in {"res", "n", "w"}, default \in {VNone, VInt(7)}, dp \in DestPaths,
          rf \in BOOLEAN :
           call_get(k, default, TRUE, dp, rf)
    \/ \E dp \in DestPaths : call_read_subconfig("res", TRUE, dp)
    \/ \E dp \in DestPaths : call_get_subconfig_path("res", TRUE, dp)
    \/ touch("A", "f")

SpecGet == InitGet /\ [][NextGet]_vars

\* C22: get(key, default) on a key the tree does not hold returns the
\* default without raising, and leaves the tree, the dirty flag and the
\* classification cache as they were.
C22_MissingKeyDefault ==
    [][(last'.op = "get" /\ last'.name \notin DOMAIN data.m)
         => (/\ last'.exc = ""
             /\ last'.ret = last'.default
             /\ data' = data
             /\ _updated' = _updated
             /\ _files' = _files
             /\ BASE_CONFIG' = BASE_CONFIG)]_vars

\* a get of the key `res`, which a replace removed after it was classified,
\* answered with the default 7
C22_Witness ==
    /\ last.op = "get" /\ last.name = "res" /\ "res" \notin DOMAIN data.m
    /\ "res" \in DOMAIN _files
    /\ last.exc = "" /\ last.ret = VInt(7) /\ last.default = VInt(7)


\* C30: get(read_file=True) and read_subconfig ignore dest_path: for an
\* uncached descriptor without url that no candidate root holds they raise
\* the resource-not-found error whatever dest_path is, and the fallback is
\* only ever the answer of get(read_file=False) or get_subconfig_path.
C30_ReadIgnoresDestPath ==
    [][\A k \in TopKeys :
         /\ (/\ calls' = calls + 1
             /\ last'.name = k
             /\ \/ last'.op = "read_subconfig"
                \/ last'.op = "get" /\ last'.read_file
             /\ k \in DOMAIN data.m
             /\ data.m[k].kind = "map"
             /\ "_path" \notin DOMAIN data.m[k].m
             /\ Truthy(is_subconfig_file(data, _files, k).ret)
             /\ ~HasUrl(data.m[k])
             /\ Hits(Cands(data.m[k], last'.try_default_paths),
                     FileName(data.m[k], k)) = {})
               => /\ last'.exc = "FileNotFoundError"
                  /\ last'.ret = NotFound(FileName(data.m[k], k), k,
                                          Cands(data.m[k], last'.try_default_paths))
                  /\ last'.how = ""
         /\ (last'.how = "fallback" /\ last'.name = k)
               => /\ last'.op \in {"get", "get_subconfig_path"}
                  /\ ~last'.read_file]_vars

\* a reading get given a dest_path that raised the not-found error
C30_Witness ==
    /\ last.op = "get" /\ last.read_file
    /\ last.dest_path = VStr("C")
    /\ last.exc = "FileNotFoundError"
    /\ last.ret.kind = "error"

-----------------------------------------------------------------------------
(* save: target and format *)

InitSave == InitWith({EnvBase, EnvLayered, EnvExplicit})

NextSave ==
    \/ __init__
    \/ \E v \in {VInt(2), Plain} : set("n", v)
    \/ \E p \in {NoPath, OutJson, GoneYml, ConfYaml} : save(p)
    \/ call_get_subconfig_path("res", FALSE, VNone)
    \/ touch("A", "f")

SpecSave == InitSave /\ [][NextSave]_vars

\* the file save is to write: the path given, else the explicit construction
\* path, else the user-config location
SaveTarget ==
    IF last'.file # NoPath THEN last'.file
    ELSE IF path # NoPath THEN path
    ELSE params.DEFAULT_CONFIG_FILE

\* C23: save(path) writes the current tree to the path given, else to the
\* explicit construction path, else to the user-config location, whether
\* the target's suffix is .json or a YAML one, and changes neither another
\* file nor the tree, the dirty flag or the descriptor caches.
C23_SaveWritesTree ==
    [][last'.op = "save"
         => (/\ last'.exc = ""
             /\ cfg' = [cfg EXCEPT ![SaveTarget] = json_dumps(data)]
             /\ data' = data
             /\ _updated' = _updated
             /\ _files' = _files)]_vars


-----------------------------------------------------------------------------
(* Two threads resolving the same descriptor *)

InitRace == InitWith({EnvBase})

RemoteText == VMap(Dict1("url", VStr("ut")))
RemoteTo == VMap(Dict2("url", VStr("ub"), "download_dest", VStr("D")))

NoneCalled == \A t \in Threads : threads[t].pc = "idle"

\* the config is prepared by one thread; then both threads make the same
\* call of get_subconfig_path on the key `res`
NextRace ==
    \/ __init__
    \/ NoneCalled /\ \E v \in {TwoRoots, Named, Remote, RemoteText, RemoteTo} :
                        set("res", v)
    \/ NoneCalled /\ add_default_location("B", FALSE)
    \/ NoneCalled /\ \E f \in {<<"A", "f">>, <<"B", "f">>} : touch(f[1], f[2])
    \/ \E t \in Threads, tdp \in BOOLEAN, dp \in DestPaths :
          /\ \A u \in Threads :
                threads[u].pc # "idle"
                   => (threads[u].try_default_paths = tdp
                       /\ threads[u].dest_path = dp)
          /\ t_call(t, "res", tdp, dp)
    \/ \E t \in Threads : t_assert(t)
    \/ \E t \in Threads : t_check(t)
    \/ \E t \in Threads : t_cached(t)
    \/ \E t \in Threads : t_head(t)
    \/ \E t \in Threads : t_dest(t)
    \/ \E t \in Threads : t_write(t)
    \/ \E t \in Threads : t_store(t)
    \/ \E t \in Threads : t_list(t)
    \/ \E t \in Threads : t_iter(t)
    \/ \E t \in Threads : t_miss(t)

SpecRace == InitRace /\ [][NextRace]_vars


\* both threads have returned or raised, and the file system is as each of
\* them found it when it called
BothDone ==
    \A t \in Threads :
        /\ threads[t].pc = "done"
        /\ threads[t].files0 = files
        /\ threads[t].dirs0 = dirs

\* the `_path` the descriptor holds, None when it holds none
FinalPath ==
    IF "_path" \in DOMAIN data.m["res"].m THEN data.m["res"].m["_path"]
    ELSE VNone

-----------------------------------------------------------------------------
(* A resolved descriptor through merges, replacements and reloads *)

InitKeep == InitWith({EnvBase, EnvLayered})

Moved == VMap(Dict1("paths", VList(<<"B">>, FALSE)))

NextKeep ==
    \/ __init__
    \/ reload
    \/ save(NoPath)
    \/ \E v \in {Named, RemoteTo} : set("res", v)
    \/ update(Dict1("res", Named))
    \/ replace_data(VMap(Dict1("res", Named)))
    \/ \E deep \in BOOLEAN : expand(ExtraYml, deep)
    \/ \E u \in {Remote, Renamed, Moved} : deep_update(NoHandlers, Dict1("res", u))
    \/ \E rf \in BOOLEAN : call_get("res", VInt(7), TRUE, VNone, rf)
    \/ call_get_subconfig_path("res", FALSE, VNone)
    \/ touch("A", "f")

SpecKeep == InitKeep /\ [][NextKeep]_vars

\* key k holds a descriptor with a cached path
Cached(d, k) ==
    /\ k \in DOMAIN d.m
    /\ d.m[k].kind = "map"
    /\ "_path" \in DOMAIN d.m[k].m

C28_ReturnsConcretePath ==
    /\ \A t \in Threads :
          (threads[t].pc = "done" /\ threads[t].exc = "")
             => threads[t].ret # VNone
    /\ \A k \in DOMAIN data.m :
          (data.m[k].kind = "map" /\ "_path" \in DOMAIN data.m[k].m)
             => data.m[k].m["_path"] # VNone

====
